---- MODULE Spec2Model ----
(***************************************************************************)
(* StateQL: the field-grammar parser (package parser) and the relational   *)
(* schema compiler (package db).  Text is a sequence of one-character      *)
(* strings, so that the string operations of the Go code are modelled by   *)
(* what they compute.                                                      *)
(***************************************************************************)
EXTENDS Integers, Sequences, FiniteSets, TLC

(* ------------------------------------------------------------------ *)
(* Go's strings package, as used by the parser and the compiler.       *)
(* ------------------------------------------------------------------ *)

\* unicode.IsSpace, over the characters of the model's alphabet
IsSpace(c) == c \in {" ", "\t", "\n", "\r", "\f"}

\* s[a:b] of Go (0-based, half open); SliceOK is the bounds check whose
\* failure is a run-time panic
SliceOK(s, a, b) == 0 <= a /\ a <= b /\ b <= Len(s)

Slice(s, a, b) == SubSeq(s, a + 1, b)

HasPrefix(s, p) == Len(s) >= Len(p) /\ SubSeq(s, 1, Len(p)) = p

HasSuffix(s, p) == Len(s) >= Len(p) /\ SubSeq(s, Len(s) - Len(p) + 1, Len(s)) = p

TrimPrefix(s, p) == IF HasPrefix(s, p) THEN SubSeq(s, Len(p) + 1, Len(s)) ELSE s

TrimSuffix(s, p) == IF HasSuffix(s, p) THEN SubSeq(s, 1, Len(s) - Len(p)) ELSE s

\* strings.Index: 0-based position of the first occurrence, -1 when absent
RECURSIVE IndexFrom(_, _, _)
IndexFrom(s, sub, i) ==
    IF i + Len(sub) > Len(s) THEN -1
    ELSE IF SubSeq(s, i + 1, i + Len(sub)) = sub THEN i
    ELSE IndexFrom(s, sub, i + 1)

Index(s, sub) == IndexFrom(s, sub, 0)

Contains(s, sub) == Index(s, sub) >= 0

\* the first position from i on whose character is not in cut (Len(s) + 1
\* when there is none)
RECURSIVE LeftCut(_, _, _)
LeftCut(s, cut, i) ==
    IF i <= Len(s) /\ s[i] \in cut THEN LeftCut(s, cut, i + 1) ELSE i

\* the last position from i down whose character is not in cut (0 when
\* there is none)
RECURSIVE RightCut(_, _, _)
RightCut(s, cut, i) ==
    IF i >= 1 /\ s[i] \in cut THEN RightCut(s, cut, i - 1) ELSE i

TrimSet(s, cut) == SubSeq(s, LeftCut(s, cut, 1), RightCut(s, cut, Len(s)))

\* strings.Trim(s, cutset): every leading and trailing character of cutset
Trim(s, cutset) == TrimSet(s, {cutset[i] : i \in 1..Len(cutset)})

SpaceChars == {" ", "\t", "\n", "\r", "\f"}

TrimSpace(s) == TrimSet(s, SpaceChars)

\* strings.Split(s, sep) for a non-empty sep
RECURSIVE Split(_, _)
Split(s, sep) ==
    LET i == Index(s, sep)
    IN IF i < 0 THEN <<s>>
       ELSE <<SubSeq(s, 1, i)>> \o Split(SubSeq(s, i + Len(sep) + 1, Len(s)), sep)

\* the first position from i on whose character is a space (Len(s) + 1 when
\* there is none)
RECURSIVE SpaceFrom(_, _)
SpaceFrom(s, i) == IF i <= Len(s) /\ ~IsSpace(s[i]) THEN SpaceFrom(s, i + 1) ELSE i

RECURSIVE FieldsFrom(_, _)
FieldsFrom(s, i) ==
    LET b == LeftCut(s, SpaceChars, i)
        e == SpaceFrom(s, b)
    IN IF b > Len(s) THEN <<>> ELSE <<SubSeq(s, b, e - 1)>> \o FieldsFrom(s, e)

\* strings.Fields: the maximal runs of non-space characters
Fields(s) == FieldsFrom(s, 1)

UpperCase == <<"A","B","C","D","E","F","G","H","I","J","K","L","M","N","O","P","Q","R","S","T","U","V","W","X","Y","Z">>
LowerCase == <<"a","b","c","d","e","f","g","h","i","j","k","l","m","n","o","p","q","r","s","t","u","v","w","x","y","z">>

LowerOf == [c \in {UpperCase[i] : i \in 1..Len(UpperCase)} |->
                LowerCase[CHOOSE i \in 1..Len(UpperCase) : UpperCase[i] = c]]

ToLowerChar(c) == IF c \in DOMAIN LowerOf THEN LowerOf[c] ELSE c

ToLower(s) == [i \in 1..Len(s) |-> ToLowerChar(s[i])]

\* bufio.ScanLines on the unread text (not empty): the next token, which is
\* the text up to the first newline with one trailing carriage return
\* dropped, and the text left unread after it
scanToken(text) ==
    LET i == Index(text, <<"\n">>)
    IN IF i < 0 THEN [token |-> TrimSuffix(text, <<"\r">>), rest |-> <<>>]
       ELSE [token |-> TrimSuffix(SubSeq(text, 1, i), <<"\r">>),
             rest |-> SubSeq(text, i + 2, Len(text))]

(* ------------------------------------------------------------------ *)
(* package parser                                                      *)
(* ------------------------------------------------------------------ *)

\* Field{}: the zero value of the Field struct.  A map is the set of its
\* <<key, value>> pairs; a nil map and a nil slice are the empty ones.
ZeroField ==
    [Name |-> <<>>, Type |-> <<>>, IsMany |-> FALSE, Through |-> <<>>,
     IsAction |-> FALSE, ActionType |-> <<>>, ActionArgs |-> {},
     RequiredParams |-> <<>>, FunctionName |-> <<>>, FunctionArgs |-> <<>>]

\* result[key] = value
MapPut(m, k, v) == {p \in m : p[1] # k} \cup {<<k, v>>}

\* one iteration of parseActionArgs' loop; i is the Go loop index (0-based)
ActionArgsStep(acc, parts, i) ==
    LET part == TrimSpace(parts[i + 1])
        kv == Split(part, <<"=">>)
    IN IF HasPrefix(part, <<":">>)
       THEN [acc EXCEPT !.req = Append(@, TrimPrefix(part, <<":">>))]
       ELSE IF Contains(part, <<"=">>)
       THEN IF Len(kv) = 2
            THEN [acc EXCEPT !.args = MapPut(@, TrimSpace(kv[1]), TrimSpace(kv[2]))]
            ELSE acc
       ELSE IF i = 0 THEN [acc EXCEPT !.args = MapPut(@, <<"a","r","g","1">>, part)]
       ELSE IF i = 1 THEN [acc EXCEPT !.args = MapPut(@, <<"a","r","g","2">>, part)]
       ELSE acc

RECURSIVE ActionArgsLoop(_, _, _)
ActionArgsLoop(acc, parts, i) ==
    IF i >= Len(parts) THEN acc
    ELSE ActionArgsLoop(ActionArgsStep(acc, parts, i), parts, i + 1)

\* parseActionArgs: args is the (map, requiredParams) pair it returns
parseActionArgs(args) ==
    ActionArgsLoop([args |-> {}, req |-> <<>>], Fields(args), 0)

\* the body of parseFunctionArgs' loop, for one token
FunctionArg(tok) ==
    LET part == TrimSpace(tok)
    IN IF HasPrefix(part, <<"\"">>) /\ HasSuffix(part, <<"\"">>)
       THEN Trim(part, <<"\"">>) ELSE part

parseFunctionArgs(args) ==
    LET parts == Fields(args)
    IN [i \in 1..Len(parts) |-> FunctionArg(parts[i])]

\* def[strings.Index(def, "(")+1 : strings.Index(def, ")")] is in bounds
ParenSliceOK(def) == SliceOK(def, Index(def, <<"(">>) + 1, Index(def, <<")">>))

ParenName(def) == Slice(def, 0, Index(def, <<"(">>))

ParenArgs(def) == Slice(def, Index(def, <<"(">>) + 1, Index(def, <<")">>))

\* the action branch of parseField
parseActionField(name, typeDef) ==
    LET field == [ZeroField EXCEPT !.Name = name, !.IsAction = TRUE]
        actionParts == Split(typeDef, <<" ","t","h","r","u"," ">>)
        actionType == TrimSpace(actionParts[2])
        parsed == parseActionArgs(ParenArgs(actionType))
    IN IF Len(actionParts) # 2 THEN [panic |-> FALSE, field |-> field]
       ELSE IF ~Contains(actionType, <<"(">>)
       THEN [panic |-> FALSE, field |-> [field EXCEPT !.ActionType = actionType]]
       ELSE IF ~ParenSliceOK(actionType) THEN [panic |-> TRUE, field |-> ZeroField]
       ELSE [panic |-> FALSE,
             field |-> [field EXCEPT !.ActionType = ParenName(actionType),
                                     !.ActionArgs = parsed.args,
                                     !.RequiredParams = parsed.req]]

\* a many branch that keeps the second part as it is split
parseManyFieldUntrimmed(name, typeDef) ==
    LET field == [ZeroField EXCEPT !.Name = name, !.IsMany = TRUE]
        throughParts == Split(typeDef, <<" ","t","h","r","u"," ">>)
    IN IF Len(throughParts) = 2
       THEN [panic |-> FALSE, field |-> [field EXCEPT !.Through = throughParts[2]]]
       ELSE [panic |-> FALSE, field |-> field]

\* the many branch of parseField
parseManyField(name, typeDef) ==
    LET field == [ZeroField EXCEPT !.Name = name, !.IsMany = TRUE]
        throughParts == Split(typeDef, <<" ","t","h","r","u"," ">>)
    IN IF Len(throughParts) = 2
       THEN [panic |-> FALSE, field |-> [field EXCEPT !.Through = TrimSpace(throughParts[2])]]
       ELSE [panic |-> FALSE, field |-> field]

\* the function (computed) branch of parseField
parseFunctionField(name, typeDef) ==
    LET parts == Split(typeDef, <<" ","t","h","r","u"," ">>)
        field == [ZeroField EXCEPT !.Name = name, !.Type = TrimSpace(parts[1])]
        functionDef == TrimSpace(parts[2])
    IN IF ~Contains(functionDef, <<"(">>) THEN [panic |-> FALSE, field |-> field]
       ELSE IF ~ParenSliceOK(functionDef) THEN [panic |-> TRUE, field |-> ZeroField]
       ELSE [panic |-> FALSE,
             field |-> [field EXCEPT !.FunctionName = ParenName(functionDef),
                                     !.FunctionArgs = parseFunctionArgs(ParenArgs(functionDef))]]

\* a parseField that looks for " thru " before the action and many prefixes
classifyThruFirst(name, typeDef) ==
    IF Contains(typeDef, <<" ","t","h","r","u"," ">>) THEN parseFunctionField(name, typeDef)
    ELSE IF HasPrefix(typeDef, <<"a","c","t","i","o","n">>) THEN parseActionField(name, typeDef)
    ELSE IF HasPrefix(typeDef, <<"m","a","n","y">>) THEN parseManyField(name, typeDef)
    ELSE [panic |-> FALSE, field |-> [ZeroField EXCEPT !.Name = name, !.Type = typeDef]]

\* the order in which parseField tries its branches on a type definition
classify(name, typeDef) ==
    IF HasPrefix(typeDef, <<"a","c","t","i","o","n">>) THEN parseActionField(name, typeDef)
    ELSE IF HasPrefix(typeDef, <<"m","a","n","y">>) THEN parseManyField(name, typeDef)
    ELSE IF Contains(typeDef, <<" ","t","h","r","u"," ">>) THEN parseFunctionField(name, typeDef)
    ELSE [panic |-> FALSE, field |-> [ZeroField EXCEPT !.Name = name, !.Type = typeDef]]

\* a parseField that takes the first two parts of a longer split
parseFieldLenient(line) ==
    LET l == TrimSpace(TrimPrefix(line, <<"-"," ">>))
        parts == Split(l, <<" ","i","s"," ">>)
    IN IF Len(parts) < 2 THEN [panic |-> FALSE, field |-> ZeroField]
       ELSE classify(TrimSpace(parts[1]), TrimSpace(parts[2]))

\* parseField: panic is TRUE when the call ends in a run-time panic (slice
\* bounds out of range), else field is the Field it returns
parseField(line) ==
    LET l == TrimSpace(TrimPrefix(line, <<"-"," ">>))
        parts == Split(l, <<" ","i","s"," ">>)
    IN IF Len(parts) # 2 THEN [panic |-> FALSE, field |-> ZeroField]
       ELSE classify(TrimSpace(parts[1]), TrimSpace(parts[2]))

(* ------------------------------------------------------------------ *)
(* package db                                                          *)
(* ------------------------------------------------------------------ *)

mapTypeToPostgres(stateqlType) ==
    LET t == ToLower(stateqlType)
    IN IF t = <<"t","e","x","t">> THEN <<"T","E","X","T">>
       ELSE IF t = <<"n","u","m","b","e","r">> THEN <<"N","U","M","E","R","I","C">>
       ELSE IF t = <<"s","w","i","t","c","h">> THEN <<"B","O","O","L","E","A","N">>
       ELSE IF t = <<"d","a","t","e">> THEN <<"D","A","T","E">>
       ELSE IF t = <<"t","i","m","e","s","t","a","m","p">> THEN <<"T","I","M","E","S","T","A","M","P">>
       ELSE IF t = <<"s","e","c","o","n","d","s">> THEN <<"I","N","T","E","G","E","R">>
       ELSE <<"T","E","X","T">>

\* a field loop that leaves out only the fields with IsMany
columnSQLActions(field) ==
    IF ~field.IsMany
    THEN ToLower(field.Name) \o <<" ">> \o mapTypeToPostgres(field.Type) \o <<",">>
    ELSE <<>>

\* a field loop that leaves out a declared column named like the key
columnSQLSkipId(field) ==
    IF ~field.IsMany /\ ~field.IsAction /\ ToLower(field.Name) # <<"i","d">>
    THEN ToLower(field.Name) \o <<" ">> \o mapTypeToPostgres(field.Type) \o <<",">>
    ELSE <<>>

\* what one iteration of createTable's field loop appends to createSQL
columnSQL(field) ==
    IF ~field.IsMany /\ ~field.IsAction
    THEN ToLower(field.Name) \o <<" ">> \o mapTypeToPostgres(field.Type) \o <<",">>
    ELSE <<>>

RECURSIVE columnsSQL(_, _)
columnsSQL(createSQL, fields) ==
    IF fields = <<>> THEN createSQL
    ELSE columnsSQL(createSQL \o columnSQL(Head(fields)), Tail(fields))

\* a createTable whose statement has no IF NOT EXISTS guard
createTableUnguarded(entity) ==
    LET tableName == ToLower(entity.Name)
        createSQL == columnsSQL(<<"C","R","E","A","T","E"," ","T","A","B","L","E"," ">> \o tableName \o <<" ","(">>
                                    \o <<"i","d"," ","S","E","R","I","A","L"," ","P","R","I","M","A","R","Y"," ","K","E","Y",",">>,
                                entity.Fields)
    IN [name |-> tableName, sql |-> TrimSuffix(createSQL, <<",">>) \o <<")">>]

\* createTable: the statement it hands to the executor, with the table it names:
\* CREATE TABLE IF NOT EXISTS <table> (id SERIAL PRIMARY KEY,<column> <TYPE>,...)
createTable(entity) ==
    LET tableName == ToLower(entity.Name)
        createSQL == columnsSQL(<<"C","R","E","A","T","E"," ","T","A","B","L","E"," ","I","F"," ","N","O","T"," ","E","X","I","S","T","S"," ">> \o tableName \o <<" ","(">>
                                    \o <<"i","d"," ","S","E","R","I","A","L"," ","P","R","I","M","A","R","Y"," ","K","E","Y",",">>,
                                entity.Fields)
    IN [name |-> tableName, sql |-> TrimSuffix(createSQL, <<",">>) \o <<")">>]

\* a junction table keyed by the entity column alone
junctionTableOneKey(entity, field) ==
    LET tableName == ToLower(entity.Name) \o <<"_">> \o ToLower(field.Name)
        e == ToLower(entity.Name)
        t == ToLower(field.Through)
    IN [name |-> tableName,
        sql |-> <<"\n","\t","\t","\t","\t","C","R","E","A","T","E"," ","T","A","B","L","E"," ","I","F"," ","N","O","T"," ","E","X","I","S","T","S"," ">> \o tableName \o <<" ","(","\n","\t","\t","\t","\t","\t">>
                \o e \o <<"_","i","d"," ","I","N","T","E","G","E","R"," ","R","E","F","E","R","E","N","C","E","S"," ">> \o e \o <<"(","i","d",")",",","\n","\t","\t","\t","\t","\t">>
                \o t \o <<"_","i","d"," ","I","N","T","E","G","E","R"," ","R","E","F","E","R","E","N","C","E","S"," ">> \o t \o <<"(","i","d",")",",","\n","\t","\t","\t","\t","\t">>
                \o <<"P","R","I","M","A","R","Y"," ","K","E","Y"," ","(">> \o e \o <<"_","i","d",")","\n","\t","\t","\t","\t",")">>]

\* createRelationships: the statement issued for one field with IsMany; the
\* text is the raw string literal of the source, with its newlines and tabs:
\*   CREATE TABLE IF NOT EXISTS <table> (
\*       <e>_id INTEGER REFERENCES <e>(id),
\*       <t>_id INTEGER REFERENCES <t>(id),
\*       PRIMARY KEY (<e>_id, <t>_id)
\*   )
junctionTable(entity, field) ==
    LET tableName == ToLower(entity.Name) \o <<"_">> \o ToLower(field.Name)
        e == ToLower(entity.Name)
        t == ToLower(field.Through)
    IN [name |-> tableName,
        sql |-> <<"\n","\t","\t","\t","\t","C","R","E","A","T","E"," ","T","A","B","L","E"," ","I","F"," ","N","O","T"," ","E","X","I","S","T","S"," ">> \o tableName \o <<" ","(","\n","\t","\t","\t","\t","\t">>
                \o e \o <<"_","i","d"," ","I","N","T","E","G","E","R"," ","R","E","F","E","R","E","N","C","E","S"," ">> \o e \o <<"(","i","d",")",",","\n","\t","\t","\t","\t","\t">>
                \o t \o <<"_","i","d"," ","I","N","T","E","G","E","R"," ","R","E","F","E","R","E","N","C","E","S"," ">> \o t \o <<"(","i","d",")",",","\n","\t","\t","\t","\t","\t">>
                \o <<"P","R","I","M","A","R","Y"," ","K","E","Y"," ","(">> \o e \o <<"_","i","d",","," ">> \o t \o <<"_","i","d",")","\n","\t","\t","\t","\t",")">>]

(* ------------------------------------------------------------------ *)
(* Bounds and inputs                                                   *)
(* ------------------------------------------------------------------ *)

\* most lines of a source text
MaxLines == 3

\* most invocations of GenerateSchema on the parsed model
MaxRuns == 2

\* most tokens of an argument text handed to parseActionArgs / parseFunctionArgs
MaxTokens == 3

RECURSIVE SeqsUpTo(_, _)
SeqsUpTo(S, n) ==
    IF n = 0 THEN {<<>>}
    ELSE LET shorter == SeqsUpTo(S, n - 1)
         IN shorter \cup {Append(s, e) : s \in {t \in shorter : Len(t) = n - 1}, e \in S}

RECURSIVE Join(_, _)
Join(parts, sep) ==
    IF parts = <<>> THEN <<>>
    ELSE IF Len(parts) = 1 THEN parts[1]
    ELSE parts[1] \o sep \o Join(Tail(parts), sep)

\* the lines a source text is made of: two entity headers, a blank line, a
\* scalar, a many, a computed and an action field, a line without " is ",
\* and an action whose parenthesis is not closed
SourceLines ==
    { <<"U","s","e","r",":">>, <<"t","a","s","k">>, <<>>,
      <<"-"," ","i","d"," ","i","s"," ","t","e","x","t">>,
      <<"-"," ","f","r","i","e","n","d","s"," ","i","s"," ","m","a","n","y"," ","U","s","e","r"," ","t","h","r","u"," ","T","a","s","k">>,
      <<"-"," ","n"," ","i","s"," ","n","u","m","b","e","r"," ","t","h","r","u"," ","c","o","u","n","t","(","f","r","i","e","n","d","s",")">>,
      <<"-"," ","a"," ","i","s"," ","a","c","t","i","o","n"," ","t","h","r","u"," ","p","u","t","(","x"," ",":","k",")">>,
      <<"-"," ","b","a","d">>,
      <<"-"," ","b"," ","i","s"," ","a","c","t","i","o","n"," ","t","h","r","u"," ","p","u","t","(","x">> }

SourceTexts == {Join(ls, <<"\n">>) : ls \in SeqsUpTo(SourceLines, MaxLines)}

\* the error values the statement executor answers a rejected statement with
ExecErrors == {"syntax error", "relation does not exist"}

AlreadyExists == "relation already exists"

(* ------------------------------------------------------------------ *)
(* State                                                               *)
(* ------------------------------------------------------------------ *)

VARIABLES
    content,        \* the request's source text
    rest,           \* the text the scanner of ParseStateQL has not read yet
    entities,       \* stateql.Entities
    currentEntity,  \* index of the entity currentEntity points to, 0 for nil
    pc,             \* where the request handler is
    gi, gj,         \* GenerateSchema's entity and createRelationships' field
    issued,         \* statements handed to the executor in this run, with answers
    store,          \* the tables of the relational store
    accepted,       \* statements the store has accepted
    rets,           \* what each finished GenerateSchema run returned
    call,           \* a direct call of one parser function, with its argument
    result,         \* what that call gave
    peer            \* a second request served at the same time: its model and run

vars == <<content, rest, entities, currentEntity, pc, gi, gj, issued, store,
          accepted, rets, call, result, peer>>

parseVars == <<content, rest, entities, currentEntity>>

genVars == <<gi, gj, issued, store, accepted, rets>>

fnVars == <<call, result>>

NoCall == [fn |-> "none", arg |-> <<>>]

NoResult == [done |-> FALSE]

\* no second request
NoPeer == [pc |-> "none", entities |-> <<>>, gi |-> 0, gj |-> 0, issued |-> <<>>, ret |-> "none"]

InitWith(texts) ==
    /\ content \in texts
    /\ rest = content
    /\ entities = <<>>
    /\ currentEntity = 0
    /\ pc = "scan"
    /\ gi = 0 /\ gj = 0
    /\ issued = <<>>
    /\ store = {}
    /\ accepted = {}
    /\ rets = <<>>
    /\ call = NoCall
    /\ result = NoResult
    /\ peer = NoPeer

Init == InitWith(SourceTexts)

(* ------------------------------------------------------------------ *)
(* ParseStateQL, one scanned line per step                             *)
(* ------------------------------------------------------------------ *)

\* the line of this iteration: strings.TrimSpace(scanner.Text())
line == TrimSpace(scanToken(rest).token)

\* for scanner.Scan(): there is another token
Scanning == pc = "scan" /\ rest # <<>>

\* stateql.Entities = append(stateql.Entities, Entity{Name: entityName})
appendEntity(ents, l) == Append(ents, [Name |-> TrimSuffix(l, <<":">>), Fields |-> <<>>])

\* a parser that keeps appending to the first entity
appendFieldFirst(ents, cur, field) == [ents EXCEPT ![1].Fields = Append(@, field)]

\* a parser that starts the field list of the entity again
appendFieldReplace(ents, cur, field) == [ents EXCEPT ![cur].Fields = <<field>>]

\* currentEntity.Fields = append(currentEntity.Fields, field)
appendField(ents, cur, field) == [ents EXCEPT ![cur].Fields = Append(@, field)]

SkipBlank ==
    /\ Scanning /\ line = <<>>
    /\ rest' = scanToken(rest).rest
    /\ UNCHANGED <<content, entities, currentEntity, pc, genVars, fnVars, peer>>

OpenEntity ==
    /\ Scanning /\ line # <<>> /\ ~HasPrefix(line, <<"-">>)
    /\ entities' = appendEntity(entities, line)
    /\ currentEntity' = Len(entities')
    /\ rest' = scanToken(rest).rest
    /\ UNCHANGED <<content, pc, genVars, fnVars, peer>>

\* a parser that appends through currentEntity without testing it for nil
DropFieldPanics ==
    /\ Scanning /\ HasPrefix(line, <<"-">>) /\ currentEntity = 0
    /\ pc' = "panic"
    /\ UNCHANGED <<parseVars, genVars, fnVars, peer>>

DropField ==
    /\ Scanning /\ HasPrefix(line, <<"-">>) /\ currentEntity = 0
    /\ rest' = scanToken(rest).rest
    /\ UNCHANGED <<content, entities, currentEntity, pc, genVars, fnVars, peer>>

AppendField ==
    /\ Scanning /\ HasPrefix(line, <<"-">>) /\ currentEntity # 0
    /\ ~parseField(line).panic
    /\ entities' = appendField(entities, currentEntity, parseField(line).field)
    /\ rest' = scanToken(rest).rest
    /\ UNCHANGED <<content, currentEntity, pc, genVars, fnVars, peer>>

\* parseField panics: ParseStateQL never returns, the request is aborted
FieldPanic ==
    /\ Scanning /\ HasPrefix(line, <<"-">>) /\ currentEntity # 0
    /\ parseField(line).panic
    /\ pc' = "panic"
    /\ UNCHANGED <<parseVars, genVars, fnVars, peer>>

\* return &stateql, nil
ParseReturn ==
    /\ pc = "scan" /\ rest = <<>>
    /\ pc' = "parsed"
    /\ UNCHANGED <<parseVars, genVars, fnVars, peer>>

(* ------------------------------------------------------------------ *)
(* GenerateSchema, one executed statement per step                     *)
(* ------------------------------------------------------------------ *)

Returned == [pc |-> "returned", i |-> 0, j |-> 0]

\* a relationship pass that skips the fields whose Through is empty
RECURSIVE RelFromChecked(_, _, _)
RelFromChecked(ents, i, j) ==
    IF i > Len(ents) THEN Returned
    ELSE IF j > Len(ents[i].Fields) THEN RelFromChecked(ents, i + 1, 1)
    ELSE IF ents[i].Fields[j].IsMany /\ ents[i].Fields[j].Through # <<>>
    THEN [pc |-> "rels", i |-> i, j |-> j]
    ELSE RelFromChecked(ents, i, j + 1)

\* the relationship pass from field j of entity i on: the next field with
\* IsMany, or the end of both loops
RECURSIVE RelFrom(_, _, _)
RelFrom(ents, i, j) ==
    IF i > Len(ents) THEN Returned
    ELSE IF j > Len(ents[i].Fields) THEN RelFrom(ents, i + 1, 1)
    ELSE IF ents[i].Fields[j].IsMany THEN [pc |-> "rels", i |-> i, j |-> j]
    ELSE RelFrom(ents, i, j + 1)

\* the table pass from entity i on, then the relationship pass
TableFrom(ents, i) ==
    IF i <= Len(ents) THEN [pc |-> "tables", i |-> i, j |-> 0] ELSE RelFrom(ents, 1, 1)

\* a compiler that starts the relationship pass after the first table
afterTableOnePass(ents, i) == RelFrom(ents, 1, 1)

\* where GenerateSchema goes after createTable(entities[i]) succeeded
afterTable(ents, i) == TableFrom(ents, i + 1)

\* where it goes after the statement for field j of entity i succeeded
afterRelationship(ents, i, j) == RelFrom(ents, i, j + 1)

\* a compiler that wraps the executor's error
returnErrWrapped(err) == "failed to create table"

\* if err != nil { return err }
returnErr(err) == err

Guarded(sql) == Contains(sql, <<" ","I","F"," ","N","O","T"," ","E","X","I","S","T","S"," ">>)

Exists(tables, name) == \E t \in tables : t.name = name

\* sg.db.Exec(createSQL).Error: the answers the executor can give.  A
\* statement it accepted before is accepted again; CREATE TABLE IF NOT
\* EXISTS leaves an existing table alone, CREATE TABLE of an existing table
\* is an error.
ExecAnswers(stmt) ==
    IF Exists(store, stmt.name) /\ ~Guarded(stmt.sql) THEN {AlreadyExists}
    ELSE IF stmt.sql \in accepted THEN {"ok"}
    ELSE {"ok"} \cup ExecErrors

ExecStore(stmt) == IF Exists(store, stmt.name) THEN store ELSE store \cup {stmt}

GoTo(pos) == pc' = pos.pc /\ gi' = pos.i /\ gj' = pos.j

Finish(ret) == IF pc' = "returned" THEN rets' = Append(rets, ret) ELSE rets' = rets

\* main: ParseStateQL returned no error, GenerateSchema is called
CallGenerateSchema ==
    /\ pc = "parsed"
    /\ GoTo(TableFrom(entities, 1))
    /\ Finish("nil")
    /\ UNCHANGED <<parseVars, issued, store, accepted, fnVars, peer>>

\* the same model is compiled again against the same store
CallGenerateSchemaAgain ==
    /\ pc = "returned" /\ Len(rets) < MaxRuns
    /\ GoTo(TableFrom(entities, 1))
    /\ Finish("nil")
    /\ issued' = <<>>
    /\ UNCHANGED <<parseVars, store, accepted, fnVars, peer>>

ExecOk(stmt, next) ==
    /\ "ok" \in ExecAnswers(stmt)
    /\ store' = ExecStore(stmt)
    /\ accepted' = accepted \cup {stmt.sql}
    /\ issued' = Append(issued, [name |-> stmt.name, sql |-> stmt.sql, res |-> "ok"])
    /\ GoTo(next)
    /\ Finish("nil")
    /\ UNCHANGED <<parseVars, fnVars, peer>>

ExecErr(stmt) ==
    \E e \in ExecAnswers(stmt) \ {"ok"} :
        /\ issued' = Append(issued, [name |-> stmt.name, sql |-> stmt.sql, res |-> e])
        /\ GoTo(Returned)
        /\ Finish(returnErr(e))
        /\ UNCHANGED <<parseVars, store, accepted, fnVars, peer>>

CreateTableOk ==
    /\ pc = "tables"
    /\ ExecOk(createTable(entities[gi]), afterTable(entities, gi))

CreateTableErr ==
    /\ pc = "tables"
    /\ ExecErr(createTable(entities[gi]))

CreateRelationshipOk ==
    /\ pc = "rels"
    /\ ExecOk(junctionTable(entities[gi], entities[gi].Fields[gj]),
              afterRelationship(entities, gi, gj))

CreateRelationshipErr ==
    /\ pc = "rels"
    /\ ExecErr(junctionTable(entities[gi], entities[gi].Fields[gj]))

Next ==
    \/ SkipBlank \/ OpenEntity \/ DropField \/ AppendField \/ FieldPanic \/ ParseReturn
    \/ CallGenerateSchema \/ CallGenerateSchemaAgain
    \/ CreateTableOk \/ CreateTableErr
    \/ CreateRelationshipOk \/ CreateRelationshipErr

Spec == Init /\ [][Next]_vars

\* lines of documents the parser has no rule for: a line without " is ", a
\* line with " is " twice, the and-joined many form of the example
\* definition, a computed field named like the key, an unclosed parenthesis
DocLines ==
    { <<"U","s","e","r",":">>, <<>>,
      <<"-"," ","b","a","d">>,
      <<"-"," ","f"," ","i","s"," ","a"," ","i","s"," ","b">>,
      <<"-"," ","p","a","r","e","n","t","T","a","s","k","s"," ","i","s"," ","m","a","n","y"," ","T","a","s","k"," ","a","n","d"," ","p","a","r","e","n","t","s">>,
      <<"-"," ","I","D"," ","i","s"," ","n","u","m","b","e","r"," ","t","h","r","u"," ","c","o","u","n","t","(","x",")">>,
      <<"-"," ","b"," ","i","s"," ","a","c","t","i","o","n"," ","t","h","r","u"," ","p","u","t","(","x">> }

DocTexts == {Join(ls, <<"\n">>) : ls \in SeqsUpTo(DocLines, MaxLines)}

InitDoc == InitWith(DocTexts)

SpecDoc == InitDoc /\ [][Next]_vars

(* ------------------------------------------------------------------ *)
(* Two requests served at the same time by the one SchemaGenerator     *)
(* ------------------------------------------------------------------ *)

\* ParseStateQL's scan as one function, for texts on which parseField
\* returns: the entities and currentEntity after the last line
RECURSIVE scanLoop(_, _, _)
scanLoop(text, ents, cur) ==
    IF text = <<>> THEN [entities |-> ents, currentEntity |-> cur]
    ELSE LET tok == scanToken(text)
             l == TrimSpace(tok.token)
         IN IF l = <<>> THEN scanLoop(tok.rest, ents, cur)
            ELSE IF ~HasPrefix(l, <<"-">>) THEN scanLoop(tok.rest, appendEntity(ents, l), Len(ents) + 1)
            ELSE IF cur = 0 THEN scanLoop(tok.rest, ents, cur)
            ELSE scanLoop(tok.rest, appendField(ents, cur, parseField(l).field), cur)

ParseStateQL(text) == scanLoop(text, <<>>, 0)

\* the texts of the two requests: they declare the tables user and task with
\* different columns, in different orders
ConcTexts ==
    { <<"U","s","e","r",":","\n","-"," ","i","d"," ","i","s"," ","t","e","x","t","\n","t","a","s","k">>,
      <<"t","a","s","k","\n","-"," ","n"," ","i","s"," ","n","u","m","b","e","r","\n","U","s","e","r",":">>,
      <<"U","s","e","r",":","\n","-"," ","f","r","i","e","n","d","s"," ","i","s"," ","m","a","n","y"," ","U","s","e","r"," ","t","h","r","u"," ","T","a","s","k">> }

\* both handlers have parsed their text and are about to call GenerateSchema
InitConc ==
    /\ content \in ConcTexts
    /\ rest = <<>>
    /\ entities = ParseStateQL(content).entities
    /\ currentEntity = ParseStateQL(content).currentEntity
    /\ pc = "parsed"
    /\ gi = 0 /\ gj = 0
    /\ issued = <<>>
    /\ store = {}
    /\ accepted = {}
    /\ rets = <<>>
    /\ call = NoCall
    /\ result = NoResult
    /\ peer \in {[NoPeer EXCEPT !.pc = "parsed", !.entities = ParseStateQL(t).entities] :
                    t \in ConcTexts}

PeerGoTo(pos, log, ret) ==
    peer' = [peer EXCEPT !.pc = pos.pc, !.gi = pos.i, !.gj = pos.j, !.issued = log,
                         !.ret = IF pos.pc = "returned" THEN ret ELSE @]

\* a GenerateSchema that waits until no other invocation is inside
PeerCallGenerateSchemaLocked ==
    /\ peer.pc = "parsed" /\ pc \notin {"tables", "rels"}
    /\ PeerGoTo(TableFrom(peer.entities, 1), <<>>, "nil")
    /\ UNCHANGED <<parseVars, pc, genVars, fnVars>>

\* the second handler calls GenerateSchema on the shared generator
PeerCallGenerateSchema ==
    /\ peer.pc = "parsed"
    /\ PeerGoTo(TableFrom(peer.entities, 1), <<>>, "nil")
    /\ UNCHANGED <<parseVars, pc, genVars, fnVars>>

PeerExecOk(stmt, next) ==
    /\ "ok" \in ExecAnswers(stmt)
    /\ store' = ExecStore(stmt)
    /\ accepted' = accepted \cup {stmt.sql}
    /\ PeerGoTo(next, Append(peer.issued, [name |-> stmt.name, sql |-> stmt.sql, res |-> "ok"]),
                "nil")
    /\ UNCHANGED <<parseVars, pc, gi, gj, issued, rets, fnVars>>

PeerExecErr(stmt) ==
    \E e \in ExecAnswers(stmt) \ {"ok"} :
        /\ PeerGoTo(Returned, Append(peer.issued, [name |-> stmt.name, sql |-> stmt.sql, res |-> e]),
                    returnErr(e))
        /\ UNCHANGED <<parseVars, pc, genVars, fnVars>>

PeerCreateTableOk ==
    /\ peer.pc = "tables"
    /\ PeerExecOk(createTable(peer.entities[peer.gi]), afterTable(peer.entities, peer.gi))

PeerCreateTableErr ==
    /\ peer.pc = "tables"
    /\ PeerExecErr(createTable(peer.entities[peer.gi]))

PeerCreateRelationshipOk ==
    /\ peer.pc = "rels"
    /\ PeerExecOk(junctionTable(peer.entities[peer.gi], peer.entities[peer.gi].Fields[peer.gj]),
                  afterRelationship(peer.entities, peer.gi, peer.gj))

PeerCreateRelationshipErr ==
    /\ peer.pc = "rels"
    /\ PeerExecErr(junctionTable(peer.entities[peer.gi], peer.entities[peer.gi].Fields[peer.gj]))

NextConc ==
    \/ CallGenerateSchema
    \/ CreateTableOk \/ CreateTableErr
    \/ CreateRelationshipOk \/ CreateRelationshipErr
    \/ PeerCallGenerateSchema
    \/ PeerCreateTableOk \/ PeerCreateTableErr
    \/ PeerCreateRelationshipOk \/ PeerCreateRelationshipErr

SpecConc == InitConc /\ [][NextConc]_vars

(* ------------------------------------------------------------------ *)
(* The parser's functions called on their own                          *)
(* ------------------------------------------------------------------ *)

ActionArgTokens == { <<"x">>, <<"y">>, <<"z">>, <<":","k">>, <<"a","=","b">>, <<"a","=","b","=","c">> }

FunctionArgTokens == { <<"c">>, <<"\"","a","\"">>, <<"\"","\"","b","\"","\"">>, <<"\"">>, <<"\"","d">>, <<"e","\"","f">> }

FieldNames == { <<"f">>, <<"i","d">> }

TypeDefs ==
    { <<"t","e","x","t">>, <<"J","s","o","n">>,
      <<"a","c","t","i","o","n">>, <<"a","c","t","i","o","n","a","b","l","e">>,
      <<"a","c","t","i","o","n"," ","t","h","r","u"," ","p","u","t","(","x",")">>, <<"a","c","t","i","o","n"," ","t","h","r","u"," ","d","r","o","p","(","x"," ",":","k",")">>, <<"a","c","t","i","o","n"," ","t","h","r","u"," ","s","e","t","(","v"," ","a","=","b",")">>,
      <<"a","c","t","i","o","n"," ","t","h","r","u"," ","a","r","c","h","i","v","e">>,
      <<"a","c","t","i","o","n"," ","t","h","r","u"," ","p","u","t","(","x">>, <<"a","c","t","i","o","n"," ","t","h","r","u"," ",")","p","u","t","(">>,
      <<"m","a","n","y"," ","U","s","e","r">>, <<"m","a","n","y"," ","U","s","e","r"," ","t","h","r","u"," ","b">>, <<"m","a","n","y"," "," ","U","s","e","r"," ","t","h","r","u"," "," ","b"," ">>,
      <<"m","a","n","y"," ","U","s","e","r"," ","t","h","r","u"," ","a"," ","t","h","r","u"," ","b">>, <<"m","a","n","y"," ","U","s","e","r"," ","t","h","r","u"," ","t","h","r","u"," ","b">>,
      <<"m","a","n","y"," ","T","a","s","k"," ","a","n","d"," ","p","a","r","e","n","t","s">>, <<"m","a","n","y","t","h","r","u"," ","t","h","r","u"," ","f","(","x",")">>,
      <<"n","u","m","b","e","r"," ","t","h","r","u"," ","c","o","u","n","t","(","f",")">>, <<"t","e","x","t"," ","t","h","r","u"," ","e","i","t","h","e","r","(","\"","a","\""," ","\"","b","\"",")">>,
      <<"U","s","e","r"," ","t","h","r","u"," ","a","u","t","h","o","r","e","d","T","a","s","k","s">>, <<"n","u","m","b","e","r"," ","t","h","r","u"," ","c","o","u","n","t","(","f">> }

\* a field line written as the marker, the name, " is " and the type definition
FieldCalls ==
    {[fn |-> "parseField", arg |-> <<"-"," ">> \o n \o <<" ","i","s"," ">> \o t, name |-> n, typeDef |-> t] :
        n \in FieldNames, t \in TypeDefs}

\* field lines that are not of that shape
OddFieldCalls ==
    {[fn |-> "parseField", arg |-> l, name |-> <<>>, typeDef |-> <<>>] :
        l \in { <<"-"," ","b","a","d">>, <<"-">>, <<"-"," ","f"," ","i","s"," ","a"," ","i","s"," ","b">>, <<"-"," ","i","s"," ","t","e","x","t">>, <<"-","g"," ","i","s"," ","t","e","x","t">>,
                 <<"-"," "," ","h"," "," ","i","s"," "," ","t","e","x","t">> }}

ArgCalls(fn, tokens) ==
    {[fn |-> fn, arg |-> Join(ts, <<" ">>), name |-> <<>>, typeDef |-> <<>>] :
        ts \in SeqsUpTo(tokens, MaxTokens)}

FnCalls ==
    FieldCalls \cup OddFieldCalls
        \cup ArgCalls("parseActionArgs", ActionArgTokens)
        \cup ArgCalls("parseFunctionArgs", FunctionArgTokens)

InitFn ==
    /\ call \in FnCalls
    /\ result = NoResult
    /\ pc = "fn"
    /\ content = <<>> /\ rest = <<>> /\ entities = <<>> /\ currentEntity = 0
    /\ gi = 0 /\ gj = 0 /\ issued = <<>> /\ store = {} /\ accepted = {} /\ rets = <<>>
    /\ peer = NoPeer

Calling(fn) == pc = "fn" /\ ~result.done /\ call.fn = fn

CallParseField ==
    /\ Calling("parseField")
    /\ result' = [done |-> TRUE, panic |-> parseField(call.arg).panic,
                  field |-> parseField(call.arg).field]
    /\ UNCHANGED <<call, pc, parseVars, genVars, peer>>

CallParseActionArgs ==
    /\ Calling("parseActionArgs")
    /\ result' = [done |-> TRUE, args |-> parseActionArgs(call.arg).args,
                  req |-> parseActionArgs(call.arg).req]
    /\ UNCHANGED <<call, pc, parseVars, genVars, peer>>

CallParseFunctionArgs ==
    /\ Calling("parseFunctionArgs")
    /\ result' = [done |-> TRUE, list |-> parseFunctionArgs(call.arg)]
    /\ UNCHANGED <<call, pc, parseVars, genVars, peer>>

NextFn == CallParseField \/ CallParseActionArgs \/ CallParseFunctionArgs

SpecFn == InitFn /\ [][NextFn]_vars

(* ------------------------------------------------------------------ *)
(* Properties                                                          *)
(* ------------------------------------------------------------------ *)

NonBlank(l) == l # <<>>

\* the positions of the newlines of a text
Newlines(text) == {i \in 1..Len(text) : text[i] = "\n"}

\* the lines of a text: what lies between two successive newlines, or
\* between a newline and an end of the text; nothing after a last newline
LinesOf(text) ==
    LET nl == Newlines(text)
        cuts == {0} \cup nl \cup (IF text # <<>> /\ text[Len(text)] # "\n"
                                   THEN {Len(text) + 1} ELSE {})
        starts == {c \in cuts : \E d \in cuts : d > c}
        kth(k) == CHOOSE c \in starts : Cardinality({d \in starts : d < c}) = k - 1
        nextCut(c) == CHOOSE d \in cuts : d > c /\ \A x \in cuts : x > c => d <= x
    IN [k \in 1..Cardinality(starts) |-> SubSeq(text, kth(k) + 1, nextCut(kth(k)) - 1)]

\* the non-blank lines of the source text, trimmed
srcLines ==
    LET ls == LinesOf(content)
    IN SelectSeq([i \in 1..Len(ls) |-> TrimSpace(ls[i])], NonBlank)

\* the positions of the header lines among the lines sl
HeaderIdx(sl) == {i \in 1..Len(sl) : sl[i][1] # "-"}

\* every field line is preceded by some entity header
WellFormed(sl) == sl = <<>> \/ 1 \in HeaderIdx(sl)

HeaderName(l) == IF l[Len(l)] = ":" THEN SubSeq(l, 1, Len(l) - 1) ELSE l

\* the entity of the header at line h, whose block ends before line e
ExpectedEntity(sl, h, e) ==
    [Name |-> HeaderName(sl[h]),
     Fields |-> [n \in 1..(e - h - 1) |-> parseField(sl[h + n]).field]]

\* one entity per header line, with the field lines up to the next header
ExpectedEntities(sl) ==
    LET H == HeaderIdx(sl)
        kth(k) == CHOOSE i \in H : Cardinality({j \in H : j < i}) = k - 1
        end(k) == IF k < Cardinality(H) THEN kth(k + 1) ELSE Len(sl) + 1
    IN [k \in 1..Cardinality(H) |-> ExpectedEntity(sl, kth(k), end(k))]

C2_ParseNeverFails == pc # "panic"

\* C3: when the executor rejects a statement, that statement is the last one
\* of the run, the run has returned exactly the executor's error value, and
\* the table of every statement accepted earlier in the run is in the store.
C3_AbortOnError ==
    \A k \in 1..Len(issued) :
        issued[k].res # "ok" =>
            /\ k = Len(issued)
            /\ pc = "returned"
            /\ rets # <<>> /\ rets[Len(rets)] = issued[k].res
            /\ \A m \in 1..(k - 1) :
                   issued[m].res = "ok" /\ Exists(store, issued[m].name)

\* a run rejected at its second statement or later
C3_Witness ==
    /\ pc = "returned" /\ Len(issued) >= 2
    /\ issued[Len(issued)].res \in ExecErrors
    /\ rets[Len(rets)] = issued[Len(issued)].res
    /\ Exists(store, issued[1].name)

\* C4, as claimed: a run of GenerateSchema that follows a first run
\* returns no error and leaves the tables of the store unchanged.
C4_SecondRunAlwaysSucceeds ==
    [][Len(rets) >= 1 =>
          /\ store' = store
          /\ (Len(rets') > Len(rets) => rets'[Len(rets')] = "nil")]_vars

\* C4, amended: a run of GenerateSchema that follows a run of the same model
\* which returned no error returns no error and leaves the tables of the
\* store unchanged.
C4_IdempotentAfterSuccess ==
    [][(\E r \in 1..Len(rets) : rets[r] = "nil") =>
          /\ store' = store
          /\ (Len(rets') > Len(rets) => rets'[Len(rets')] = "nil")]_vars

\* a second run that issued statements after a first run without error
C4_Witness ==
    /\ pc = "returned" /\ Len(rets) = 2
    /\ rets[1] = "nil" /\ rets[2] = "nil"
    /\ Len(issued) >= 2

ManyPairs(ents) ==
    UNION {{<<i, j>> : j \in {n \in 1..Len(ents[i].Fields) : ents[i].Fields[n].IsMany}} :
              i \in 1..Len(ents)}

Before(p, q) == p[1] < q[1] \/ (p[1] = q[1] /\ p[2] < q[2])

Rank(ents, p) == Cardinality({q \in ManyPairs(ents) : Before(q, p)}) + 1

PairOfRank(ents, r) == CHOOSE p \in ManyPairs(ents) : Rank(ents, p) = r

\* the statements of a whole run: the entity tables in entity order, then the
\* junction tables in entity order and, within an entity, field order
ExpectedStatements(ents) ==
    [k \in 1..(Len(ents) + Cardinality(ManyPairs(ents))) |->
        IF k <= Len(ents) THEN createTable(ents[k])
        ELSE LET p == PairOfRank(ents, k - Len(ents))
             IN junctionTable(ents[p[1]], ents[p[1]].Fields[p[2]])]

Statements(log) == [k \in 1..Len(log) |-> [name |-> log[k].name, sql |-> log[k].sql]]

IsPrefix(s, t) == Len(s) <= Len(t) /\ SubSeq(t, 1, Len(s)) = s

InRun == pc \in {"tables", "rels", "returned"}

RunReturnedNil == pc = "returned" /\ rets[Len(rets)] = "nil"

\* C5: the statements of a run reach the executor in two passes, first the
\* entity tables in entity declaration order, then the junction tables in
\* entity and field declaration order; a run that returns no error has
\* issued all of them.
C5_TwoPasses ==
    InRun =>
        /\ IsPrefix(Statements(issued), ExpectedStatements(entities))
        /\ (RunReturnedNil => Len(issued) = Len(ExpectedStatements(entities)))

\* two entity tables, then the junction table of a field of the first entity
C5_Witness ==
    /\ RunReturnedNil /\ Len(entities) = 2 /\ Len(issued) = 3
    /\ entities[1].Fields # <<>> /\ entities[1].Fields[1].IsMany
    /\ issued[2].name = ToLower(entities[2].Name)

IsColumnField(f) == ~f.IsMany /\ ~f.IsAction

\* the statement the claim describes for one entity
ExpectedTableSQL(entity) ==
    LET cols == SelectSeq(entity.Fields, IsColumnField)
        defs == <<<<"i","d"," ","S","E","R","I","A","L"," ","P","R","I","M","A","R","Y"," ","K","E","Y">>>> \o
                [k \in 1..Len(cols) |->
                    ToLower(cols[k].Name) \o <<" ">> \o mapTypeToPostgres(cols[k].Type)]
    IN <<"C","R","E","A","T","E"," ","T","A","B","L","E"," ","I","F"," ","N","O","T"," ","E","X","I","S","T","S"," ">> \o ToLower(entity.Name) \o <<" ","(">>
           \o Join(defs, <<",">>) \o <<")">>

\* C6: the statement issued for an entity creates, if it does not exist, the
\* table named by the lowercased entity name, with the column id first and
\* then one column per field that is neither ManyRelation nor Action, in
\* field order, named by the lowercased field name and typed by
\* mapTypeToPostgres; ManyRelation and Action fields give no column.
C6_TableStatement ==
    InRun =>
        \A k \in 1..Len(issued) :
            k <= Len(entities) =>
                /\ issued[k].name = ToLower(entities[k].Name)
                /\ issued[k].sql = ExpectedTableSQL(entities[k])

\* an entity with a column field and a field that gives no column
C6_Witness ==
    /\ InRun /\ Len(issued) >= 1
    /\ \E a, b \in 1..Len(entities[1].Fields) :
          /\ IsColumnField(entities[1].Fields[a]) /\ entities[1].Fields[a].Name # <<>>
          /\ ~IsColumnField(entities[1].Fields[b])

\* the junction statement the claim describes for field f of entity e, read
\* as its whitespace-separated words
JunctionShape(stmt, e, f) ==
    LET en == ToLower(e.Name)
        th == ToLower(f.Through)
        name == en \o <<"_">> \o ToLower(f.Name)
    IN /\ stmt.name = name
       /\ Fields(stmt.sql) =
              Fields(<<"C","R","E","A","T","E"," ","T","A","B","L","E"," ","I","F"," ","N","O","T"," ","E","X","I","S","T","S"," ">> \o name \o <<" ","("," ">>
                     \o en \o <<"_","i","d"," ","I","N","T","E","G","E","R"," ","R","E","F","E","R","E","N","C","E","S"," ">> \o en \o <<"(","i","d",")",","," ">>
                     \o th \o <<"_","i","d"," ","I","N","T","E","G","E","R"," ","R","E","F","E","R","E","N","C","E","S"," ">> \o th \o <<"(","i","d",")",","," ">>
                     \o <<"P","R","I","M","A","R","Y"," ","K","E","Y"," ","(">> \o en \o <<"_","i","d",","," ">> \o th \o <<"_","i","d",")"," ",")">>)

\* C7: after the entity tables, the statements of a run are one junction
\* statement per ManyRelation field, in order: named <entity>_<field>
\* lowercased, with the integer foreign keys <entity>_id and <through>_id
\* referencing the tables of the lowercased entity name and Through value,
\* and a primary key over both; a run that returns no error has issued one
\* for every ManyRelation field and none for any other field.
C7_JunctionStatements ==
    InRun =>
        /\ \A k \in 1..Len(issued) :
              k > Len(entities) =>
                  /\ k - Len(entities) <= Cardinality(ManyPairs(entities))
                  /\ LET p == PairOfRank(entities, k - Len(entities))
                     IN JunctionShape(issued[k], entities[p[1]],
                                      entities[p[1]].Fields[p[2]])
        /\ (RunReturnedNil =>
              Len(issued) = Len(entities) + Cardinality(ManyPairs(entities)))

\* a finished run that issued the junction statement of a field with a
\* Through value, for an entity that also has a field of another kind
C7_Witness ==
    /\ RunReturnedNil /\ Len(issued) = 2 /\ Len(entities) = 1
    /\ \E a, b \in 1..Len(entities[1].Fields) :
          /\ entities[1].Fields[a].IsMany /\ entities[1].Fields[a].Through # <<>>
          /\ ~entities[1].Fields[b].IsMany

IsPositional(tok) == tok[1] # ":" /\ \A i \in 1..Len(tok) : tok[i] # "="

Positionals(text) == SelectSeq(Fields(text), IsPositional)

HasKey(m, k) == \E p \in m : p[1] = k

\* C8: parseActionArgs stores the first positional token under arg1 and the
\* second under arg2, counted among the positional tokens only, and drops a
\* third or later one.
C8_PositionalByRank ==
    (result.done /\ call.fn = "parseActionArgs") =>
        LET P == Positionals(call.arg)
        IN /\ (Len(P) >= 1 <=> HasKey(result.args, <<"a","r","g","1">>))
           /\ (Len(P) >= 1 => <<<<"a","r","g","1">>, P[1]>> \in result.args)
           /\ (Len(P) >= 2 <=> HasKey(result.args, <<"a","r","g","2">>))
           /\ (Len(P) >= 2 => <<<<"a","r","g","2">>, P[2]>> \in result.args)

QuotedBothEnds(tok) == tok[1] = "\"" /\ tok[Len(tok)] = "\""

\* C9: parseFunctionArgs returns one element per token, in order; a token
\* that starts and ends with a double quote loses exactly one leading and
\* one trailing quote, every other token is returned unchanged.
C9_OneQuoteLayer ==
    (result.done /\ call.fn = "parseFunctionArgs") =>
        LET toks == Fields(call.arg)
        IN result.list =
               [i \in 1..Len(toks) |->
                   IF QuotedBothEnds(toks[i])
                   THEN SubSeq(toks[i], 2, Len(toks[i]) - 1) ELSE toks[i]]

StartsWith(s, p) == \E tl \in {SubSeq(s, Len(p) + 1, Len(s))} : s = p \o tl

\* C10: parseField classifies a 'name is typedef' line by the first rule that
\* matches, in the order Action (begins with "action"), ManyRelation (begins
\* with "many"), Computed (contains " thru "), Scalar; IsAction and IsMany
\* are never both true, and an Action or ManyRelation field has empty Type
\* and FunctionName.
C10_ClassificationOrder ==
    (result.done /\ call.fn = "parseField" /\ call.typeDef # <<>> /\ ~result.panic) =>
        LET td == TrimSpace(call.typeDef)
            f == result.field
        IN /\ ~(f.IsAction /\ f.IsMany)
           /\ IF StartsWith(td, <<"a","c","t","i","o","n">>)
              THEN f.IsAction /\ f.Type = <<>> /\ f.FunctionName = <<>>
              ELSE IF StartsWith(td, <<"m","a","n","y">>)
              THEN f.IsMany /\ f.Type = <<>> /\ f.FunctionName = <<>>
              ELSE IF Len(Split(td, <<" ","t","h","r","u"," ">>)) > 1
              THEN /\ ~f.IsAction /\ ~f.IsMany
                   /\ f.Type = TrimSpace(Split(td, <<" ","t","h","r","u"," ">>)[1])
              ELSE ~f.IsAction /\ ~f.IsMany /\ f.Type = td /\ f.FunctionName = <<>>

\* an action type definition that contains " thru " and was parsed as Action
C10_Witness ==
    /\ result.done /\ call.fn = "parseField" /\ ~result.panic
    /\ StartsWith(call.typeDef, <<"a","c","t","i","o","n">>) /\ Contains(call.typeDef, <<" ","t","h","r","u"," ">>)
    /\ result.field.IsAction /\ result.field.ActionType # <<>>

\* the positions at which sep occurs in s
Occurrences(s, sep) == {i \in 1..(Len(s) - Len(sep) + 1) : SubSeq(s, i, i + Len(sep) - 1) = sep}

Least(S) == CHOOSE i \in S : \A j \in S : i <= j

\* what follows the first occurrence of sep in s
AfterFirst(s, sep) == SubSeq(s, Least(Occurrences(s, sep)) + Len(sep), Len(s))

\* sep occurs in s, and not again after its first occurrence
OccursOnce(s, sep) ==
    /\ Occurrences(s, sep) # {}
    /\ Occurrences(AfterFirst(s, sep), sep) = {}

ManyCall ==
    /\ result.done /\ call.fn = "parseField" /\ call.typeDef # <<>> /\ ~result.panic
    /\ StartsWith(TrimSpace(call.typeDef), <<"m","a","n","y">>)

\* C11, as claimed: for a type definition that begins with "many" and
\* contains " thru ", Through is the trimmed second part of the split on
\* " thru "; Through is empty only when the separator is absent.
C11_ThroughWheneverThru ==
    ManyCall =>
        LET td == TrimSpace(call.typeDef)
        IN /\ Occurrences(td, <<" ","t","h","r","u"," ">>) # {} =>
                  result.field.Through = TrimSpace(Split(td, <<" ","t","h","r","u"," ">>)[2])
           /\ result.field.Through = <<>> => Occurrences(td, <<" ","t","h","r","u"," ">>) = {}

\* C11, amended: for a type definition that begins with "many" and that the
\* separator " thru " splits into exactly two parts, Through is the trimmed
\* second part, and it is not empty; Through is empty when the separator is
\* absent or splits the definition into more than two parts.
C11_ThroughOfTwoParts ==
    ManyCall =>
        LET td == TrimSpace(call.typeDef)
        IN IF OccursOnce(td, <<" ","t","h","r","u"," ">>)
           THEN /\ result.field.Through = TrimSpace(AfterFirst(td, <<" ","t","h","r","u"," ">>))
                /\ result.field.Through # <<>>
           ELSE result.field.Through = <<>>

\* a many definition with one separator and spaces around the second part
C11_Witness ==
    /\ ManyCall /\ OccursOnce(TrimSpace(call.typeDef), <<" ","t","h","r","u"," ">>)
    /\ result.field.Through = <<"b">>
    /\ AfterFirst(TrimSpace(call.typeDef), <<" ","t","h","r","u"," ">>) # <<"b">>

\* C19: the Name of a field line with exactly one " is " is the text between
\* the marker "-" and " is ", without surrounding whitespace, whether or not
\* a space follows the marker.
C19_NameWithoutMarker ==
    (result.done /\ call.fn = "parseField" /\ ~result.panic /\ call.arg[1] = "-") =>
        LET text == SubSeq(call.arg, 2, Len(call.arg))
        IN OccursOnce(text, <<" ","i","s"," ">>) =>
               result.field.Name =
                   TrimSpace(SubSeq(text, 1, Least(Occurrences(text, <<" ","i","s"," ">>)) - 1))

\* the lines sl from the first header line on
FromFirstHeader(sl) ==
    IF HeaderIdx(sl) = {} THEN <<>> ELSE SubSeq(sl, Least(HeaderIdx(sl)), Len(sl))

\* C13: a field line scanned while no entity has been opened leaves the
\* entity list unchanged, opens no entity and does not end the scan; the
\* model ParseStateQL returns is the model of the text from its first header
\* line on.
C13_DroppedBeforeHeader ==
    /\ [][(Scanning /\ line # <<>> /\ line[1] = "-" /\ entities = <<>>) =>
              (entities' = <<>> /\ currentEntity' = 0 /\ pc' = "scan")]_vars
    /\ [](pc = "parsed" => entities = ExpectedEntities(FromFirstHeader(srcLines)))

\* a field line, a header, then a field line: only the second is kept
C13_Witness ==
    /\ pc = "parsed" /\ Len(srcLines) = 3
    /\ srcLines[1][1] = "-" /\ srcLines[3][1] = "-"
    /\ Len(entities) = 1 /\ Len(entities[1].Fields) = 1

\* C14: no two entities of the model ParseStateQL returns have the same Name.
C14_UniqueNames ==
    pc = "parsed" =>
        \A i, j \in 1..Len(entities) : i # j => entities[i].Name # entities[j].Name

\* C15: every step keeps each entity of the model where it is, with its Name
\* and with its earlier Fields as a prefix of its later ones; only the last
\* entity of the list grows; once ParseStateQL has returned, no step changes
\* the model.
C15_AppendOnly ==
    [][/\ Len(entities) <= Len(entities')
       /\ \A k \in 1..Len(entities) :
              /\ entities'[k].Name = entities[k].Name
              /\ IsPrefix(entities[k].Fields, entities'[k].Fields)
              /\ (k < Len(entities') => entities'[k] = entities[k])
       /\ (pc # "scan" => entities' = entities)]_vars

\* an entity that grew twice, compiled by a run that issued its statement
C15_Witness ==
    /\ RunReturnedNil /\ Len(entities) = 1 /\ Len(entities[1].Fields) = 2
    /\ issued # <<>>

\* C20: every junction-table statement of a run is issued after statements of
\* the same run that the executor accepted for both tables it references,
\* the one named by the lowercased entity name and the one named by the
\* lowercased Through.
C20_ReferencedTablesExist ==
    InRun =>
        \A k \in (Len(entities) + 1)..Len(issued) :
            LET p == PairOfRank(entities, k - Len(entities))
                entity == entities[p[1]]
                field == entity.Fields[p[2]]
            IN \A t \in {ToLower(entity.Name), ToLower(field.Through)} :
                   \E m \in 1..(k - 1) : issued[m].name = t /\ issued[m].res = "ok"

\* the text of a field line after its marker, without surrounding whitespace
FieldText(l) == TrimSpace(SubSeq(l, 2, Len(l)))

OddFieldLine(l) == l # <<>> /\ l[1] = "-" /\ ~OccursOnce(FieldText(l), <<" ","i","s"," ">>)

\* C12: scanning a field line whose text " is " does not split into exactly
\* two parts, with an entity open, appends to the last entity a field with
\* empty Name and Type, IsMany and IsAction false and no arguments, and the
\* scan goes on without an error.
C12_ZeroFieldAppended ==
    [][(Scanning /\ OddFieldLine(line) /\ entities # <<>>) =>
          /\ pc' = "scan"
          /\ Len(entities') = Len(entities)
          /\ \A k \in 1..(Len(entities) - 1) : entities'[k] = entities[k]
          /\ LET last == entities[Len(entities)]
                 last2 == entities'[Len(entities)]
                 f == last2.Fields[Len(last2.Fields)]
             IN /\ last2.Name = last.Name
                /\ Len(last2.Fields) = Len(last.Fields) + 1
                /\ IsPrefix(last.Fields, last2.Fields)
                /\ f.Name = <<>> /\ f.Type = <<>> /\ ~f.IsMany /\ ~f.IsAction
                /\ f.ActionArgs = {} /\ f.RequiredParams = <<>> /\ f.FunctionArgs = <<>>
                /\ f = ZeroField]_vars

\* an entity with two such fields, from a line without " is " and a line
\* with " is " twice
C12_Witness ==
    /\ pc = "parsed" /\ Len(entities) = 1
    /\ entities[1].Fields = <<ZeroField, ZeroField>>
    /\ Len(srcLines) = 3 /\ srcLines[2] # srcLines[3]
    /\ OddFieldLine(srcLines[2]) /\ OddFieldLine(srcLines[3])

DeclaresId(entity) ==
    \E n \in 1..Len(entity.Fields) :
        IsColumnField(entity.Fields[n]) /\ ToLower(entity.Fields[n].Name) = <<"i","d">>

\* the names of the columns of a CREATE TABLE statement, in order
ColumnNames(sql) ==
    LET open == Least(Occurrences(sql, <<"(">>))
        defs == Split(SubSeq(sql, open + 1, Len(sql) - 1), <<",">>)
    IN [n \in 1..Len(defs) |-> IF Fields(defs[n]) = <<>> THEN <<>> ELSE Fields(defs[n])[1]]

\* the run ended before statement k only because the executor rejected an
\* earlier statement
OnlyExecutorStops(k) ==
    (pc = "returned" /\ Len(issued) < k) =>
        /\ issued # <<>>
        /\ issued[Len(issued)].res # "ok"
        /\ rets[Len(rets)] = issued[Len(issued)].res

\* C16: for an entity that declares a Scalar or Computed field whose name
\* lowercases to "id", the CREATE TABLE statement is still issued, its first
\* column is the key id and a later column is the declared id; the run stops
\* before that statement only on an error of the executor.
C16_DeclaredIdColumn ==
    InRun =>
        \A k \in 1..Len(entities) :
            DeclaresId(entities[k]) =>
                /\ k <= Len(issued) =>
                       LET cols == ColumnNames(issued[k].sql)
                       IN /\ cols[1] = <<"i","d">>
                          /\ \E n \in 2..Len(cols) : cols[n] = <<"i","d">>
                /\ OnlyExecutorStops(k)

\* the statement of an entity with a computed field ID, accepted
C16_Witness ==
    /\ RunReturnedNil /\ Len(entities) = 1 /\ DeclaresId(entities[1])
    /\ Len(issued) = 1 /\ issued[1].res = "ok"
    /\ Contains(issued[1].sql, <<",","i","d"," ","N","U","M","E","R","I","C">>)

\* the statement has a foreign-key column "_id" that references "(id)"
EmptyReference(sql) ==
    LET toks == Fields(sql)
    IN \E i \in 1..(Len(toks) - 3) :
           /\ toks[i] = <<"_","i","d">> /\ toks[i + 1] = <<"I","N","T","E","G","E","R">>
           /\ toks[i + 2] = <<"R","E","F","E","R","E","N","C","E","S">> /\ toks[i + 3] = <<"(","i","d",")",",">>

\* C17: the field of the line "parentTasks is many Task and parents" is a
\* ManyRelation with empty Through; for every ManyRelation with empty
\* Through the junction-table statement is still issued, with the column
\* "_id" and an empty referenced table name; the run stops before that
\* statement only on an error of the executor.
C17_AndFormJunction ==
    /\ \A k \in 1..Len(entities) : \A n \in 1..Len(entities[k].Fields) :
           entities[k].Fields[n].Name = <<"p","a","r","e","n","t","T","a","s","k","s">> =>
               entities[k].Fields[n].IsMany /\ entities[k].Fields[n].Through = <<>>
    /\ InRun =>
           \A p \in ManyPairs(entities) :
               entities[p[1]].Fields[p[2]].Through = <<>> =>
                   LET k == Len(entities) + Rank(entities, p)
                   IN /\ k <= Len(issued) => EmptyReference(issued[k].sql)
                      /\ OnlyExecutorStops(k)

\* the junction statement of the and-joined field, accepted
C17_Witness ==
    /\ RunReturnedNil /\ Len(entities) = 1 /\ Len(issued) = 2
    /\ entities[1].Fields[1].Name = <<"p","a","r","e","n","t","T","a","s","k","s">>
    /\ issued[2].name = <<"u","s","e","r","_","p","a","r","e","n","t","t","a","s","k","s">> /\ issued[2].res = "ok"

InFlight(p) == p \in {"tables", "rels"}

\* the statement of table t was issued by a run with this log and accepted
IssuedOk(log, t) ==
    \E k \in 1..Len(log) : log[k].name = t.name /\ log[k].sql = t.sql /\ log[k].res = "ok"

\* C18: GenerateSchema applies no serialization guard: a handler that has
\* parsed can enter GenerateSchema, and an invocation that is inside can hand
\* its next statement to the executor, whatever the other invocation is
\* doing; every table of the store has the columns of a statement that one
\* of the two invocations issued and the executor accepted.
C18_NoSerialization ==
    /\ pc = "parsed" => ENABLED CallGenerateSchema
    /\ peer.pc = "parsed" => ENABLED PeerCallGenerateSchema
    /\ InFlight(pc) => ENABLED (CreateTableOk \/ CreateRelationshipOk)
    /\ InFlight(peer.pc) => ENABLED (PeerCreateTableOk \/ PeerCreateRelationshipOk)
    /\ \A t \in store : IssuedOk(issued, t) \/ IssuedOk(peer.issued, t)

\* an interleaving no serial order gives: both invocations declare two
\* tables with different columns, in opposite orders, and each table has the
\* columns of the invocation that declares it first, so each invocation
\* executed its first statement before the other's second
C18_Witness ==
    \E a, b \in 1..Len(issued) : \E c, d \in 1..Len(peer.issued) :
        /\ a < b /\ c < d
        /\ issued[a].name = peer.issued[d].name /\ issued[a].sql # peer.issued[d].sql
        /\ issued[b].name = peer.issued[c].name /\ issued[b].sql # peer.issued[c].sql
        /\ [name |-> issued[a].name, sql |-> issued[a].sql] \in store
        /\ [name |-> peer.issued[c].name, sql |-> peer.issued[c].sql] \in store

\* C21: within one run of GenerateSchema the tables named by the issued
\* statements are pairwise distinct: no two entities give the same table
\* name, no two many fields the same junction name, and no junction name is
\* an entity's table name.
C21_DistinctTableNames ==
    InRun =>
        \A i, j \in 1..Len(issued) : i # j => issued[i].name # issued[j].name

\* the names of the foreign-key columns of a junction-table statement
ForeignKeyColumns(sql) ==
    LET toks == Fields(sql)
        at == {i \in 1..(Len(toks) - 2) :
                  toks[i + 1] = <<"I","N","T","E","G","E","R">> /\ toks[i + 2] = <<"R","E","F","E","R","E","N","C","E","S">>}
    IN {<<i, toks[i]>> : i \in at}

\* C22: the two foreign-key columns of every junction-table statement a run
\* issues have different names.
C22_DistinctKeyColumns ==
    InRun =>
        \A k \in (Len(entities) + 1)..Len(issued) :
            LET cols == ForeignKeyColumns(issued[k].sql)
            IN /\ Cardinality(cols) = 2
               /\ \A c, d \in cols : c[1] # d[1] => c[2] # d[2]

====
